---- MODULE Spec2Model ----
(***************************************************************************)
(* Auto-resolution gating and execution engine of agileplaceDemo.          *)
(*                                                                         *)
(* Policy state: AutoResolutionConfig (src/models/config.py) as managed by *)
(* ConfigService (src/services/config_service.py).                         *)
(* Gating: AutoResolutionService.can_auto_resolve.                         *)
(* Pipeline: AutoResolutionService.resolve_incident, one action per        *)
(* stretch of code between two awaits on a sink or a step action.          *)
(*                                                                         *)
(* Nine specifications:                                                    *)
(*   Spec       the pipeline and the policy operations.  Calls of          *)
(*              resolve_incident are made one after another (as            *)
(*              batch_auto_resolve and bulk_resolve_incidents make them);  *)
(*              policy operations interleave with the stretches of a call. *)
(*   SpecGate   can_auto_resolve applied to every combination of policy    *)
(*              and incident drawn from the bounded domains below.         *)
(*   SpecPolicy the operations that write the policy: ConfigService, the   *)
(*              PUT /api/v1/config endpoint with unvalidated bodies, and   *)
(*              the setters of BusinessLogicAgent.                         *)
(*   SpecBatch  bulk_resolve_incidents / batch_auto_resolve over a list of *)
(*              MaxBatch incidents.                                        *)
(*   SpecSnapshot    update_config applied in the two stretches on either  *)
(*              side of its first await, with a gating evaluation between. *)
(*   SpecAgent  BusinessLogicAgent.resolve_incident, forced or not, for    *)
(*              every choice of enable_audit and enable_notifications.     *)
(*   SpecConcurrent  resolve_incident calls on one incident that overlap.  *)
(*   SpecReopen overlapping calls and NotificationService.reopen_incident. *)
(*   SpecAudit  AuditService.log_entry and query_audit_log.                *)
(*                                                                         *)
(* The step actions (_execute_step) and the delivery of a notification are *)
(* opaque calls into external systems: each either returns or raises.      *)
(*                                                                         *)
(* Confidence scores and thresholds are floats in [0,1] in the source;     *)
(* here they are integer percentages (0.90 is 90).  Timestamps are values  *)
(* of a logical clock; an Optional value is <<>> for None and <<v>> for v. *)
(***************************************************************************)
EXTENDS Integers, Sequences, FiniteSets, TLC

(* ---------------------------- bounds ----------------------------------- *)
\* resolve_incident calls made in one behaviour
MaxCalls == 2
\* policy operations (override toggles, update_config) in one behaviour
MaxConfigOps == 1
\* policy operations in one behaviour of SpecPolicy
MaxPolicyOps == 3
\* incidents in the list passed to a batch call
MaxBatch == 5
\* policy operations in a behaviour of SpecSnapshot
MaxSnapshotOps == 2
\* entries in the audit log in one behaviour of SpecAudit
MaxAuditEntries == 2

(* ------------------------ program constants ---------------------------- *)
\* AutoResolutionConfig.default_confidence_threshold default (0.90)
DefaultConfidenceThreshold == 90
\* CategoryConfig.confidence_threshold default (0.90)
CategoryConfigDefaultThreshold == 90
\* the floor of CategoryConfig.validate_threshold (0.5)
ThresholdFloor == 50

(* ---------------------------- domains ---------------------------------- *)
\* IncidentStatus
Statuses == {"open", "in_progress", "auto_resolved", "manually_resolved", "closed"}
\* IncidentCategory
AllCategories == {"network", "database", "application", "security",
                  "infrastructure", "user_access", "ios_upgrade"}
\* categories of the incidents and of the category policies explored in Spec
Categories == {"database"}
\* categories that may carry a category policy in SpecGate
GateCategories == {"database", "security"}
\* categories of the incidents in SpecGate ("ios_upgrade" never has a policy)
GateIncidentCategories == {"database", "security", "ios_upgrade"}
\* confidence scores explored in Spec (percent): below the thresholds,
\* between them and above them
ConfidenceScores == {65, 92, 99}
\* confidence scores explored in SpecGate: also equal to each threshold
GateConfidenceScores == {65, 90, 92, 95, 99}
\* thresholds explored (percent); each passes validate_threshold (>= 0.5)
Thresholds == {90, 95}
\* thresholds carried by the configuration updates explored in Spec
UpdateThresholds == {95}
\* thresholds a caller may pass in SpecPolicy: below the floor (0.3), valid
\* (0.95) and above 1.0 (1.1)
RawThresholds == {30, 95, 110}
IncidentIds == {"INC-001"}
CallIds == 1..MaxCalls
None == <<>>

VARIABLES
    global_enabled,                 \* AutoResolutionConfig.global_enabled
    default_confidence_threshold,   \* AutoResolutionConfig.default_confidence_threshold
    category_configs,               \* AutoResolutionConfig.category_configs
    notification_service,           \* "present" or "None" (the injected sink)
    incidents,                      \* the caller's Incident objects, by incident_id
    calls,                          \* the resolve_incident coroutines
    audit_log,                      \* AuditService._audit_log
    notifications,                  \* NotificationService._notifications, in order
    kill_switch_alerts,             \* notify_kill_switch_activated pushes
    clock,                          \* datetime.utcnow()
    config_ops,                     \* number of policy operations so far
    evaluation,                     \* the last direct can_auto_resolve call
    batch,                          \* the incidents argument of a batch call
    responses,                      \* the responses list of a batch call
    validation_errors,              \* configuration requests refused (ValidationError)
    audit_service,                  \* "present" or "None" (the injected sink)
    tracked_incidents,              \* NotificationService._incidents (keys)
    agent_calls,                    \* the BusinessLogicAgent.resolve_incident frames
    pending_update,                 \* the update_config coroutine, when suspended
    query_result                    \* what the last audit query returned

vars == <<global_enabled, default_confidence_threshold, category_configs,
          notification_service, incidents, calls, audit_log, notifications,
          kill_switch_alerts, clock, config_ops, evaluation, batch, responses,
          validation_errors, audit_service, tracked_incidents, agent_calls,
          pending_update, query_result>>

policy_vars == <<global_enabled, default_confidence_threshold, category_configs>>

caller_vars == <<batch, responses, validation_errors>>

service_vars == <<audit_service, tracked_incidents, agent_calls, pending_update,
                  query_result>>

(* ----------------------- AutoResolutionConfig -------------------------- *)
\* CategoryConfig(category, auto_resolution_enabled, confidence_threshold);
\* max_retry_attempts and notification_required are never read
CategoryConfig(enabled, threshold) ==
    [auto_resolution_enabled |-> enabled, confidence_threshold |-> threshold]

\* is_enabled_for_category changed to treat a category without a policy as
\* disabled
is_enabled_for_category_absent_disabled(flag, configs, category) ==
    IF ~flag THEN FALSE
    ELSE IF category \in DOMAIN configs
         THEN configs[category].auto_resolution_enabled
         ELSE FALSE

\* AutoResolutionConfig.is_enabled_for_category
is_enabled_for_category(flag, configs, category) ==
    IF ~flag THEN FALSE
    ELSE IF category \in DOMAIN configs
         THEN configs[category].auto_resolution_enabled
         ELSE TRUE

\* get_confidence_threshold changed to ignore the category policy
get_confidence_threshold_default_only(dflt, configs, category) ==
    dflt

\* AutoResolutionConfig.get_confidence_threshold
get_confidence_threshold(dflt, configs, category) ==
    IF category \in DOMAIN configs
    THEN configs[category].confidence_threshold
    ELSE dflt

\* ConfigService.is_auto_resolution_enabled(category)
is_auto_resolution_enabled(category) ==
    is_enabled_for_category(global_enabled, category_configs, category)

(* ----------------------- gating, changed ------------------------------- *)
\* can_auto_resolve with the status check moved before the kill switch check
can_auto_resolve_status_first(flag, dflt, configs, incident) ==
    IF incident.status \in {"auto_resolved", "manually_resolved", "closed"}
    THEN <<FALSE, "ALREADY_TERMINAL">>
    ELSE IF ~flag
    THEN <<FALSE, "OVERRIDE_ACTIVE">>
    ELSE IF ~is_enabled_for_category(flag, configs, incident.category)
    THEN <<FALSE, "CATEGORY_DISABLED">>
    ELSE IF incident.confidence_score
              < get_confidence_threshold(dflt, configs, incident.category)
    THEN <<FALSE, "BELOW_THRESHOLD">>
    ELSE <<TRUE, "ALL_CHECKS_PASSED">>

\* can_auto_resolve with the threshold comparison changed from < to <=
can_auto_resolve_strict(flag, dflt, configs, incident) ==
    IF ~flag
    THEN <<FALSE, "OVERRIDE_ACTIVE">>
    ELSE IF incident.status \in {"auto_resolved", "manually_resolved", "closed"}
    THEN <<FALSE, "ALREADY_TERMINAL">>
    ELSE IF ~is_enabled_for_category(flag, configs, incident.category)
    THEN <<FALSE, "CATEGORY_DISABLED">>
    ELSE IF incident.confidence_score
              <= get_confidence_threshold(dflt, configs, incident.category)
    THEN <<FALSE, "BELOW_THRESHOLD">>
    ELSE <<TRUE, "ALL_CHECKS_PASSED">>

\* can_auto_resolve without the check of the incident's status
can_auto_resolve_no_status_check(flag, dflt, configs, incident) ==
    IF ~flag
    THEN <<FALSE, "OVERRIDE_ACTIVE">>
    ELSE IF ~is_enabled_for_category(flag, configs, incident.category)
    THEN <<FALSE, "CATEGORY_DISABLED">>
    ELSE IF incident.confidence_score
              < get_confidence_threshold(dflt, configs, incident.category)
    THEN <<FALSE, "BELOW_THRESHOLD">>
    ELSE <<TRUE, "ALL_CHECKS_PASSED">>

(* --------------------------- gating ------------------------------------ *)
\* AutoResolutionService.can_auto_resolve: <<can_resolve, reason>>.
\* The reason strings of the source are named by their codes:
\*   OVERRIDE_ACTIVE   "Auto-resolution is globally disabled (kill switch active)"
\*   ALREADY_TERMINAL  "Incident already in status: ..."
\*   CATEGORY_DISABLED "Auto-resolution disabled for category: ..."
\*   BELOW_THRESHOLD   "Confidence score ... below threshold ..."
\*   ALL_CHECKS_PASSED "All checks passed"
can_auto_resolve(flag, dflt, configs, incident) ==
    IF ~flag
    THEN <<FALSE, "OVERRIDE_ACTIVE">>
    ELSE IF incident.status \in {"auto_resolved", "manually_resolved", "closed"}
    THEN <<FALSE, "ALREADY_TERMINAL">>
    ELSE IF ~is_enabled_for_category(flag, configs, incident.category)
    THEN <<FALSE, "CATEGORY_DISABLED">>
    ELSE IF incident.confidence_score
              < get_confidence_threshold(dflt, configs, incident.category)
    THEN <<FALSE, "BELOW_THRESHOLD">>
    ELSE <<TRUE, "ALL_CHECKS_PASSED">>

(* ----------------------- step templates -------------------------------- *)
\* AutoResolutionService._get_resolution_steps_for_category (action names)
steps_map(category) ==
    CASE category = "network" ->
            <<"ping_check", "service_restart", "health_check">>
      [] category = "database" ->
            <<"connection_check", "pool_clear", "health_check">>
      [] category = "application" ->
            <<"log_check", "service_restart", "health_check">>
      [] category = "ios_upgrade" ->
            <<"ios_version_check", "bundle_verification", "cache_clear",
              "api_compatibility_check", "build_test">>
      [] OTHER -> <<"health_check">>

\* ResolutionStep(step_id, description, action): outcome fields start as None
NewStep(action) ==
    [action |-> action, executed_at |-> None, success |-> None,
     error_message |-> None]

\* _execute_resolution_steps, lines 171-187: the step after its action has
\* returned (raised = FALSE) or raised
ExecutedStep(action, raised, now) ==
    [NewStep(action) EXCEPT
        !.executed_at = <<now>>,
        !.success = <<~raised>>,
        !.error_message = IF raised THEN <<"error">> ELSE None]

(* ----------------------------- audit ----------------------------------- *)
\* AuditService.log_entry: one record, stamped with the current time, appended
\* at the end
log_entry(log, incident_id, action, confidence_score, success) ==
    Append(log, [incident_id |-> incident_id, action |-> action,
                 confidence_score |-> confidence_score, success |-> success,
                 timestamp |-> clock])

(* ------------------------- responses ----------------------------------- *)
\* IncidentResolutionResponse; message is the fixed part of the message text
\* and reason the reason it embeds
Response(success, message, reason, steps, resolved_at) ==
    [success |-> success, message |-> message, reason |-> reason,
     resolution_steps |-> steps, resolved_at |-> resolved_at]

\* resolve_incident, lines 95-100: "Auto-resolution skipped: {reason}"
SkippedResponse(reason) ==
    Response(FALSE, "skipped", reason, <<>>, None)

\* SuccessResponse changed to report success only when every step succeeded
SuccessResponse_all_steps(steps, resolved_at) ==
    Response(\A k \in 1..Len(steps) : steps[k].success = <<TRUE>>,
             "resolved", "ALL_CHECKS_PASSED", steps, resolved_at)

\* resolve_incident, lines 128-134: "Incident successfully auto-resolved"
SuccessResponse(steps, resolved_at) ==
    Response(TRUE, "resolved", "ALL_CHECKS_PASSED", steps, resolved_at)

\* resolve_incident, lines 147-152: "Failed to auto-resolve incident: {e}"
FailedResponse ==
    Response(FALSE, "failed", "EXCEPTION", <<>>, None)

\* ResolvedIncident changed to raise the confidence score of the incident it
\* resolves
ResolvedIncident_rescored(incident, steps, now) ==
    [incident EXCEPT !.status = "auto_resolved",
                     !.auto_resolved = TRUE,
                     !.resolved_at = <<now>>,
                     !.resolution_steps = steps,
                     !.updated_at = now,
                     !.confidence_score = 100]

\* resolve_incident, lines 107-111
ResolvedIncident(incident, steps, now) ==
    [incident EXCEPT !.status = "auto_resolved",
                     !.auto_resolved = TRUE,
                     !.resolved_at = <<now>>,
                     !.resolution_steps = steps,
                     !.updated_at = now]

(* ------------------------------ Init ----------------------------------- *)
\* ConfigService._initialize_default_category_configs
DefaultCategoryConfigs ==
    [c \in Categories |-> CategoryConfig(TRUE, DefaultConfidenceThreshold)]

\* AutoResolutionConfig(): category_configs defaults to an empty dict
EmptyCategoryConfigs ==
    [c \in {} |-> CategoryConfig(TRUE, DefaultConfidenceThreshold)]

\* a resolve_incident coroutine that has not been called yet.  pre (the
\* incident as it was when the call was made), invoked (the step actions the
\* call has run, in order) and exception (the try block of the call raised)
\* are history, not program state.
IdleCall ==
    [pc |-> "idle", incident |-> "none", pre |-> None, steps_config |-> <<>>,
     resolution_steps |-> <<>>, invoked |-> <<>>, exception |-> FALSE,
     result |-> None]

\* a BusinessLogicAgent.resolve_incident frame that has not been entered yet
IdleAgentCall == [pc |-> "idle", force |-> FALSE, original_score |-> None]

\* Incident(...): the fields the engine reads or writes
NewIncident(category, status, score) ==
    [category |-> category, priority |-> "high", status |-> status,
     confidence_score |-> score, auto_resolved |-> FALSE, resolved_at |-> None,
     resolution_steps |-> <<>>, updated_at |-> 0]

\* both sinks injected, nothing tracked, queried or suspended yet
ServiceInit ==
    /\ audit_service = "present"
    /\ tracked_incidents = {}
    /\ agent_calls = [c \in DOMAIN calls |-> IdleAgentCall]
    /\ pending_update = None
    /\ query_result = None

Init ==
    /\ global_enabled = TRUE
    /\ default_confidence_threshold = DefaultConfidenceThreshold
    /\ category_configs \in {DefaultCategoryConfigs, EmptyCategoryConfigs}
    /\ notification_service \in {"present", "None"}
    /\ incidents \in [IncidentIds ->
          {NewIncident(c, s, v) : c \in Categories, s \in Statuses,
                                  v \in ConfidenceScores}]
    /\ calls = [c \in CallIds |-> IdleCall]
    /\ audit_log = <<>>
    /\ notifications = <<>>
    /\ kill_switch_alerts = 0
    /\ clock = 1
    /\ config_ops = 0
    /\ evaluation = None
    /\ batch = <<>>
    /\ responses = <<>>
    /\ validation_errors = 0
    /\ ServiceInit

(* --------------------------- ConfigService ----------------------------- *)
\* NotificationService.notify_kill_switch_activated, called only
\* `if self.notification_service`
notify_kill_switch_activated(alerts, service) ==
    IF service = "present" THEN alerts + 1 ELSE alerts

\* activate_kill_switch changed to audit and notify without clearing the flag
activate_kill_switch_flag_kept ==
    /\ global_enabled' = global_enabled
    /\ audit_log' = log_entry(audit_log, "SYSTEM", "kill_switch_activated", None, TRUE)
    /\ kill_switch_alerts' = notify_kill_switch_activated(kill_switch_alerts,
                                                         notification_service)
    /\ config_ops' = config_ops + 1
    /\ UNCHANGED <<default_confidence_threshold, category_configs,
                   notification_service, incidents, calls, notifications, clock,
                   evaluation,
                   caller_vars, service_vars>>

\* ConfigService.activate_kill_switch
activate_kill_switch ==
    /\ global_enabled' = FALSE
    /\ audit_log' = log_entry(audit_log, "SYSTEM", "kill_switch_activated", None, TRUE)
    /\ kill_switch_alerts' = notify_kill_switch_activated(kill_switch_alerts,
                                                         notification_service)
    /\ config_ops' = config_ops + 1
    /\ UNCHANGED <<default_confidence_threshold, category_configs,
                   notification_service, incidents, calls, notifications, clock,
                   evaluation,
                   caller_vars, service_vars>>

\* ConfigService.deactivate_kill_switch
deactivate_kill_switch ==
    /\ global_enabled' = TRUE
    /\ audit_log' = log_entry(audit_log, "SYSTEM", "kill_switch_deactivated", None, TRUE)
    /\ config_ops' = config_ops + 1
    /\ UNCHANGED <<default_confidence_threshold, category_configs,
                   notification_service, incidents, calls, notifications,
                   kill_switch_alerts, clock, evaluation,
                   caller_vars, service_vars>>

\* ConfigUpdateRequest: every field Optional; the thresholds it can carry have
\* passed Field(ge=0.5, le=1.0) and CategoryConfig.validate_threshold
ConfigUpdateRequests ==
    [global_enabled : {None, <<TRUE>>, <<FALSE>>},
     default_confidence_threshold : {None} \cup {<<t>> : t \in UpdateThresholds},
     category_config : {None} \cup
        {<<[category |-> c, config |-> CategoryConfig(e, t)]>> :
            c \in Categories, e \in BOOLEAN, t \in UpdateThresholds}]

\* ConfigService.update_config
update_config(req) ==
    LET flag_given == req.global_enabled # None
        new_flag   == IF flag_given THEN req.global_enabled[1] ELSE global_enabled
        activated  == flag_given /\ ~new_flag /\ global_enabled
        deactivated == flag_given /\ new_flag /\ ~global_enabled
        log1 == IF activated
                THEN log_entry(audit_log, "SYSTEM", "kill_switch_activated", None, TRUE)
                ELSE IF deactivated
                THEN log_entry(audit_log, "SYSTEM", "kill_switch_deactivated", None, TRUE)
                ELSE audit_log
        changes == flag_given \/ req.default_confidence_threshold # None
                      \/ req.category_config # None
    IN
    /\ global_enabled' = new_flag
    /\ kill_switch_alerts' =
          IF activated
          THEN notify_kill_switch_activated(kill_switch_alerts, notification_service)
          ELSE kill_switch_alerts
    /\ default_confidence_threshold' =
          IF req.default_confidence_threshold # None
          THEN req.default_confidence_threshold[1]
          ELSE default_confidence_threshold
    /\ category_configs' =
          IF req.category_config # None
          THEN LET cc == req.category_config[1]
               IN [c \in DOMAIN category_configs \cup {cc.category} |->
                     IF c = cc.category THEN cc.config ELSE category_configs[c]]
          ELSE category_configs
    /\ audit_log' = IF changes
                    THEN log_entry(log1, "SYSTEM", "config_updated", None, TRUE)
                    ELSE log1
    /\ config_ops' = config_ops + 1
    /\ UNCHANGED <<notification_service, incidents, calls, notifications, clock,
                   evaluation,
                   caller_vars, service_vars>>

(* ---------------------- AutoResolutionService -------------------------- *)
\* ResolveStart changed to mark the incident in progress before gating
ResolveStart_marks_in_progress(c, i) ==
    /\ calls[c].pc = "idle"
    /\ audit_log' = log_entry(audit_log, i, "auto_resolution_attempted",
                              <<incidents[i].confidence_score>>, TRUE)
    /\ calls' = [calls EXCEPT ![c] =
          [@ EXCEPT !.pc = "gate", !.incident = i, !.pre = <<incidents[i]>>]]
    /\ incidents' = [incidents EXCEPT ![i] = [@ EXCEPT !.status = "in_progress"]]
    /\ UNCHANGED <<policy_vars, notification_service, notifications,
                   kill_switch_alerts, clock, config_ops, evaluation,
                   caller_vars, service_vars>>

\* ResolveStart changed to make the call without auditing the attempt
ResolveStart_attempt_not_audited(c, i) ==
    /\ calls[c].pc = "idle"
    /\ audit_log' = audit_log
    /\ calls' = [calls EXCEPT ![c] =
          [@ EXCEPT !.pc = "gate", !.incident = i, !.pre = <<incidents[i]>>]]
    /\ UNCHANGED <<policy_vars, notification_service, incidents, notifications,
                   kill_switch_alerts, clock, config_ops, evaluation,
                   caller_vars, service_vars>>

\* resolve_incident, lines 77-83: the call is made and the attempt is audited.
\* With no audit sink the attribute access on None raises AttributeError
\* outside the try block and the call ends with that exception.
ResolveStart(c, i) ==
    /\ calls[c].pc = "idle"
    /\ IF audit_service = "None"
       THEN /\ audit_log' = audit_log
            /\ calls' = [calls EXCEPT ![c] =
                  [@ EXCEPT !.pc = "raised", !.incident = i,
                            !.pre = <<incidents[i]>>]]
       ELSE /\ audit_log' = log_entry(audit_log, i, "auto_resolution_attempted",
                                      <<incidents[i].confidence_score>>, TRUE)
            /\ calls' = [calls EXCEPT ![c] =
                  [@ EXCEPT !.pc = "gate", !.incident = i,
                            !.pre = <<incidents[i]>>]]
    /\ UNCHANGED <<policy_vars, notification_service, incidents, notifications,
                   kill_switch_alerts, clock, config_ops, evaluation,
                   caller_vars, service_vars>>

\* resolve_incident, lines 85-104 and _execute_resolution_steps, lines 165-168:
\* gating; a denial is audited and returned, an allowed call fetches the
\* step template of the category
ResolveGate(c) ==
    LET i == calls[c].incident
        verdict == can_auto_resolve(global_enabled, default_confidence_threshold,
                                    category_configs, incidents[i])
    IN
    /\ calls[c].pc = "gate"
    /\ IF ~verdict[1]
       THEN /\ audit_log' = log_entry(audit_log, i, "auto_resolution_skipped",
                                      <<incidents[i].confidence_score>>, TRUE)
            /\ calls' = [calls EXCEPT ![c] =
                  [@ EXCEPT !.pc = "done",
                            !.result = <<SkippedResponse(verdict[2])>>]]
       ELSE /\ audit_log' = audit_log
            /\ calls' = [calls EXCEPT ![c] =
                  [@ EXCEPT !.pc = "steps",
                            !.steps_config = steps_map(incidents[i].category)]]
    /\ UNCHANGED <<policy_vars, notification_service, incidents, notifications,
                   kill_switch_alerts, clock, config_ops, evaluation,
                   caller_vars, service_vars>>

\* ExecuteStep changed to leave the loop as soon as a step action raises
ExecuteStep_abort_on_failure(c, raised) ==
    LET k == Len(calls[c].resolution_steps) + 1
        action == calls[c].steps_config[k]
    IN
    /\ calls[c].pc = "steps"
    /\ k <= Len(calls[c].steps_config)
    /\ calls' = [calls EXCEPT ![c] =
          [@ EXCEPT !.resolution_steps = Append(@, ExecutedStep(action, raised, clock)),
                    !.invoked = Append(@, action),
                    !.pc = IF k = Len(calls[c].steps_config) \/ raised
                           THEN "commit" ELSE "steps"]]
    /\ UNCHANGED <<policy_vars, notification_service, incidents, audit_log,
                   notifications, kill_switch_alerts, clock, config_ops, evaluation,
                   caller_vars, service_vars>>

\* _execute_resolution_steps, lines 170-193, one iteration of the loop:
\* the step is created, its action is invoked (_execute_step) and either
\* returns or raises; the outcome is recorded and the step appended.  After
\* the last template entry the list is returned.
ExecuteStep(c, raised) ==
    LET k == Len(calls[c].resolution_steps) + 1
        action == calls[c].steps_config[k]
    IN
    /\ calls[c].pc = "steps"
    /\ k <= Len(calls[c].steps_config)
    /\ calls' = [calls EXCEPT ![c] =
          [@ EXCEPT !.resolution_steps = Append(@, ExecutedStep(action, raised, clock)),
                    !.invoked = Append(@, action),
                    !.pc = IF k = Len(calls[c].steps_config) THEN "commit" ELSE "steps"]]
    /\ UNCHANGED <<policy_vars, notification_service, incidents, audit_log,
                   notifications, kill_switch_alerts, clock, config_ops, evaluation,
                   caller_vars, service_vars>>

\* resolve_incident, lines 106-118: the incident is updated and the success
\* audited
ResolveCommit(c) ==
    LET i == calls[c].incident
    IN
    /\ calls[c].pc = "commit"
    /\ incidents' = [incidents EXCEPT ![i] =
          ResolvedIncident(@, calls[c].resolution_steps, clock)]
    /\ audit_log' = log_entry(audit_log, i, "auto_resolution_success",
                              <<incidents[i].confidence_score>>, TRUE)
    /\ clock' = clock + 1
    /\ calls' = [calls EXCEPT ![c] = [@ EXCEPT !.pc = "notify"]]
    /\ UNCHANGED <<policy_vars, notification_service, notifications,
                   kill_switch_alerts, config_ops, evaluation,
                   caller_vars, service_vars>>

\* resolve_incident, lines 120-152: the notification sink is invoked inside
\* the try block.  The call raises when the service is None (AttributeError)
\* or when delivery fails; the except clause then audits the failure and
\* returns success=False.
ResolveNotify(c, delivery_fails) ==
    LET i == calls[c].incident
        raised == notification_service = "None" \/ delivery_fails
    IN
    /\ calls[c].pc = "notify"
    /\ notification_service = "None" => ~delivery_fails
    /\ tracked_incidents' = IF notification_service = "None"
                            THEN tracked_incidents
                            ELSE tracked_incidents \cup {i}
    /\ IF ~raised
       THEN /\ notifications' = Append(notifications, i)
            /\ audit_log' = log_entry(audit_log, i, "notification_sent", None, TRUE)
            /\ calls' = [calls EXCEPT ![c] =
                  [@ EXCEPT !.pc = "done",
                            !.result = <<SuccessResponse(calls[c].resolution_steps,
                                                         incidents[i].resolved_at)>>]]
       ELSE /\ notifications' = notifications
            /\ audit_log' = log_entry(audit_log, i, "auto_resolution_failed",
                                      <<incidents[i].confidence_score>>, FALSE)
            /\ calls' = [calls EXCEPT ![c] =
                  [@ EXCEPT !.pc = "done", !.exception = TRUE,
                            !.result = <<FailedResponse>>]]
    /\ UNCHANGED <<policy_vars, notification_service, incidents,
                   kill_switch_alerts, clock, config_ops, evaluation,
                   caller_vars, audit_service, agent_calls,
                   pending_update, query_result>>

(* ------------------------------ Next ----------------------------------- *)
Next ==
    \/ config_ops < MaxConfigOps /\ activate_kill_switch
    \/ config_ops < MaxConfigOps /\ deactivate_kill_switch
    \/ config_ops < MaxConfigOps /\ \E req \in ConfigUpdateRequests : update_config(req)
    \/ \E c \in CallIds, i \in IncidentIds :
          /\ \A d \in CallIds : d < c => calls[d].pc = "done"
          /\ ResolveStart(c, i)
    \/ \E c \in CallIds : ResolveGate(c)
    \/ \E c \in CallIds, raised \in BOOLEAN : ExecuteStep(c, raised)
    \/ \E c \in CallIds : ResolveCommit(c)
    \/ \E c \in CallIds, delivery_fails \in BOOLEAN : ResolveNotify(c, delivery_fails)

Spec == Init /\ [][Next]_vars

(* ---------------------------- SpecGate --------------------------------- *)
\* every category policy over every subset of GateCategories
GateCategoryConfigs ==
    UNION {[S -> {CategoryConfig(e, t) : e \in BOOLEAN, t \in Thresholds}] :
              S \in SUBSET GateCategories}

GateInit ==
    /\ global_enabled \in BOOLEAN
    /\ default_confidence_threshold \in Thresholds
    /\ category_configs \in GateCategoryConfigs
    /\ notification_service = "present"
    /\ incidents \in [IncidentIds ->
          {NewIncident(c, s, v) : c \in GateIncidentCategories, s \in Statuses,
                                  v \in GateConfidenceScores}]
    /\ calls = [c \in CallIds |-> IdleCall]
    /\ audit_log = <<>>
    /\ notifications = <<>>
    /\ kill_switch_alerts = 0
    /\ clock = 1
    /\ config_ops = 0
    /\ evaluation = None
    /\ batch = <<>>
    /\ responses = <<>>
    /\ validation_errors = 0
    /\ ServiceInit

\* check_can_resolve changed to read the global flag before a policy update
\* that is under way and the rest of the policy after it
check_can_resolve_flag_read_early(i) ==
    LET flag == IF pending_update = None
                THEN global_enabled
                ELSE pending_update[1].before.global_enabled
    IN
    /\ evaluation = None
    /\ evaluation' =
          <<[global_enabled |-> global_enabled,
             default_confidence_threshold |-> default_confidence_threshold,
             category_configs |-> category_configs,
             incident |-> incidents[i],
             verdict |-> can_auto_resolve(flag, default_confidence_threshold,
                                          category_configs, incidents[i])]>>
    /\ UNCHANGED <<policy_vars, notification_service, incidents, calls,
                   audit_log, notifications, kill_switch_alerts, clock,
                   config_ops,
                   caller_vars, service_vars>>

\* BusinessLogicAgent.check_can_resolve: can_auto_resolve called directly on
\* the current policy; the policy and the incident it read are kept with
\* the verdict
check_can_resolve(i) ==
    /\ evaluation = None
    /\ evaluation' =
          <<[global_enabled |-> global_enabled,
             default_confidence_threshold |-> default_confidence_threshold,
             category_configs |-> category_configs,
             incident |-> incidents[i],
             verdict |-> can_auto_resolve(global_enabled,
                                          default_confidence_threshold,
                                          category_configs, incidents[i])]>>
    /\ UNCHANGED <<policy_vars, notification_service, incidents, calls,
                   audit_log, notifications, kill_switch_alerts, clock,
                   config_ops,
                   caller_vars, service_vars>>

GateNext == \E i \in IncidentIds : check_can_resolve(i)

SpecGate == GateInit /\ [][GateNext]_vars

(* ---------------------------- SpecPolicy ------------------------------- *)
\* CategoryConfig.validate_threshold
validate_threshold(v) == v >= ThresholdFloor

\* CategoryConfig(category, confidence_threshold=v) is constructed without a
\* ValidationError: Field(ge=0.0, le=1.0) and validate_threshold
CategoryConfigAccepted(v) ==
    /\ 0 <= v
    /\ v <= 100
    /\ validate_threshold(v)

\* a ConfigUpdateRequest as a caller writes it, before validation
RawConfigUpdateRequests ==
    [global_enabled : {None, <<TRUE>>, <<FALSE>>},
     default_confidence_threshold : {None} \cup {<<t>> : t \in RawThresholds},
     category_config : {None} \cup
        {<<[category |-> c, config |-> CategoryConfig(e, t)]>> :
            c \in Categories, e \in BOOLEAN, t \in RawThresholds}]

\* ConfigUpdateRequestAccepted changed to validate the category policy only
ConfigUpdateRequestAccepted_category_only(raw) ==
    raw.category_config # None =>
        CategoryConfigAccepted(raw.category_config[1].config.confidence_threshold)

\* ConfigUpdateRequest(...) is constructed without a ValidationError:
\* default_confidence_threshold is Field(None, ge=0.5, le=1.0) and
\* category_config is a CategoryConfig
ConfigUpdateRequestAccepted(raw) ==
    /\ raw.default_confidence_threshold # None =>
          /\ 50 <= raw.default_confidence_threshold[1]
          /\ raw.default_confidence_threshold[1] <= 100
    /\ raw.category_config # None =>
          CategoryConfigAccepted(raw.category_config[1].config.confidence_threshold)

\* PUT /api/v1/config: the body is parsed into a ConfigUpdateRequest; a body
\* that does not validate is refused before update_config is called
update_configuration(raw) ==
    IF ConfigUpdateRequestAccepted(raw)
    THEN update_config(raw)
    ELSE /\ validation_errors' = validation_errors + 1
         /\ config_ops' = config_ops + 1
         /\ UNCHANGED <<policy_vars, notification_service, incidents, calls,
                        audit_log, notifications, kill_switch_alerts, clock,
                        evaluation, batch, responses, service_vars>>

\* BusinessLogicAgent.set_global_enabled
set_global_enabled(enabled) ==
    /\ global_enabled' = enabled
    /\ config_ops' = config_ops + 1
    /\ UNCHANGED <<default_confidence_threshold, category_configs,
                   notification_service, incidents, calls, audit_log,
                   notifications, kill_switch_alerts, clock, evaluation,
                   caller_vars, service_vars>>

\* BusinessLogicAgent.enable_category
enable_category(category, enabled) ==
    /\ category_configs' =
          IF category \notin DOMAIN category_configs
          THEN [c \in DOMAIN category_configs \cup {category} |->
                  IF c = category
                  THEN CategoryConfig(enabled, CategoryConfigDefaultThreshold)
                  ELSE category_configs[c]]
          ELSE [category_configs EXCEPT
                  ![category].auto_resolution_enabled = enabled]
    /\ config_ops' = config_ops + 1
    /\ UNCHANGED <<global_enabled, default_confidence_threshold,
                   notification_service, incidents, calls, audit_log,
                   notifications, kill_switch_alerts, clock, evaluation,
                   caller_vars, service_vars>>

\* BusinessLogicAgent.set_confidence_threshold: a threshold outside [0, 1]
\* raises ValueError; for a category without a policy a CategoryConfig is
\* constructed (and validated); the policy of a category that has one is
\* assigned to
set_confidence_threshold(category, threshold) ==
    /\ category_configs' =
          IF ~(0 <= threshold /\ threshold <= 100)
          THEN category_configs
          ELSE IF category \notin DOMAIN category_configs
          THEN IF CategoryConfigAccepted(threshold)
               THEN [c \in DOMAIN category_configs \cup {category} |->
                       IF c = category
                       THEN CategoryConfig(TRUE, threshold)
                       ELSE category_configs[c]]
               ELSE category_configs
          ELSE [category_configs EXCEPT
                  ![category].confidence_threshold = threshold]
    /\ validation_errors' =
          IF \/ ~(0 <= threshold /\ threshold <= 100)
             \/ (category \notin DOMAIN category_configs
                   /\ ~CategoryConfigAccepted(threshold))
          THEN validation_errors + 1
          ELSE validation_errors
    /\ config_ops' = config_ops + 1
    /\ UNCHANGED <<global_enabled, default_confidence_threshold,
                   notification_service, incidents, calls, audit_log,
                   notifications, kill_switch_alerts, clock, evaluation,
                   batch, responses, service_vars>>

\* the policy after construction (ConfigService.__init__, or
\* AutoResolutionConfig() of BusinessLogicAgent.__init__) and one open incident
PolicyInit ==
    /\ global_enabled = TRUE
    /\ default_confidence_threshold = DefaultConfidenceThreshold
    /\ category_configs \in {DefaultCategoryConfigs, EmptyCategoryConfigs}
    /\ notification_service \in {"present", "None"}
    /\ incidents = [i \in IncidentIds |-> NewIncident("database", "open", 92)]
    /\ calls = [c \in CallIds |-> IdleCall]
    /\ audit_log = <<>>
    /\ notifications = <<>>
    /\ kill_switch_alerts = 0
    /\ clock = 1
    /\ config_ops = 0
    /\ evaluation = None
    /\ batch = <<>>
    /\ responses = <<>>
    /\ validation_errors = 0
    /\ ServiceInit

PolicyNext ==
    \/ config_ops < MaxPolicyOps /\ activate_kill_switch
    \/ config_ops < MaxPolicyOps /\ deactivate_kill_switch
    \/ config_ops < MaxPolicyOps
          /\ \E raw \in RawConfigUpdateRequests : update_configuration(raw)
    \/ config_ops < MaxPolicyOps
          /\ \E enabled \in BOOLEAN : set_global_enabled(enabled)
    \/ config_ops < MaxPolicyOps
          /\ \E category \in Categories, enabled \in BOOLEAN :
                enable_category(category, enabled)
    \/ config_ops < MaxPolicyOps
          /\ \E category \in Categories, threshold \in RawThresholds :
                set_confidence_threshold(category, threshold)

SpecPolicy == PolicyInit /\ [][PolicyNext]_vars

(* ----------------------------- SpecBatch ------------------------------- *)
\* positions of the incidents argument; the incident at position k has
\* incident_id k
BatchIds == 1..MaxBatch

\* confidence scores of the incidents of a batch: below and above the
\* default threshold
BatchConfidenceScores == {65, 99}

\* bulk_resolve_incidents, lines 283-284 (batch_auto_resolve, lines 143-144):
\* the loop takes the next incident of the list and calls resolve_incident
bulk_resolve_call(c) ==
    /\ c = Len(responses) + 1
    /\ c <= Len(batch)
    /\ ResolveStart(c, batch[c])

\* bulk_resolve_incidents, line 285 (batch_auto_resolve, line 145): the call
\* has returned and its response is appended to the list
bulk_resolve_append(c) ==
    /\ calls[c].pc = "done"
    /\ c = Len(responses) + 1
    /\ responses' = Append(responses,
                           [incident_id |-> calls[c].incident,
                            response |-> calls[c].result[1]])
    /\ UNCHANGED <<policy_vars, notification_service, incidents, calls,
                   audit_log, notifications, kill_switch_alerts, clock,
                   config_ops, evaluation, batch, validation_errors,
                   service_vars>>

\* a list of MaxBatch open incidents of a category without a template of its
\* own, under the policy of a new BusinessLogicAgent or ConfigService
BatchInit ==
    /\ global_enabled = TRUE
    /\ default_confidence_threshold = DefaultConfidenceThreshold
    /\ category_configs \in {DefaultCategoryConfigs, EmptyCategoryConfigs}
    /\ notification_service \in {"present", "None"}
    /\ incidents \in [BatchIds ->
          {NewIncident("security", "open", v) : v \in BatchConfidenceScores}]
    /\ calls = [c \in BatchIds |-> IdleCall]
    /\ audit_log = <<>>
    /\ notifications = <<>>
    /\ kill_switch_alerts = 0
    /\ clock = 1
    /\ config_ops = 0
    /\ evaluation = None
    /\ batch = [k \in BatchIds |-> k]
    /\ responses = <<>>
    /\ validation_errors = 0
    /\ ServiceInit

BatchNext ==
    \/ \E c \in BatchIds : bulk_resolve_call(c)
    \/ \E c \in BatchIds : ResolveGate(c)
    \/ \E c \in BatchIds, raised \in BOOLEAN : ExecuteStep(c, raised)
    \/ \E c \in BatchIds : ResolveCommit(c)
    \/ \E c \in BatchIds, delivery_fails \in BOOLEAN :
          ResolveNotify(c, delivery_fails)
    \/ \E c \in BatchIds : bulk_resolve_append(c)

SpecBatch == BatchInit /\ [][BatchNext]_vars

(* --------------------------- SpecSnapshot ------------------------------ *)
\* ConfigService.update_config, lines 75-98, for a request that changes the
\* global flag: the flag is assigned (line 80), the change is audited (and
\* the activation alerted), and the coroutine is suspended at that sink with
\* the rest of the request not yet applied.  before (the policy when the call
\* was made) is history, not program state.
update_config_flag(req) ==
    LET new_flag == req.global_enabled[1]
    IN
    /\ pending_update = None
    /\ req.global_enabled # None
    /\ new_flag # global_enabled
    /\ global_enabled' = new_flag
    /\ audit_log' =
          IF ~new_flag
          THEN log_entry(audit_log, "SYSTEM", "kill_switch_activated", None, TRUE)
          ELSE log_entry(audit_log, "SYSTEM", "kill_switch_deactivated", None, TRUE)
    /\ kill_switch_alerts' =
          IF ~new_flag
          THEN notify_kill_switch_activated(kill_switch_alerts, notification_service)
          ELSE kill_switch_alerts
    /\ pending_update' =
          <<[request |-> req,
             before |-> [global_enabled |-> global_enabled,
                         default_confidence_threshold |->
                            default_confidence_threshold,
                         category_configs |-> category_configs]]>>
    /\ UNCHANGED <<default_confidence_threshold, category_configs,
                   notification_service, incidents, calls, notifications, clock,
                   config_ops, evaluation, caller_vars, audit_service,
                   tracked_incidents, agent_calls, query_result>>

\* ConfigService.update_config, lines 100-127: the suspended call resumes,
\* applies the default threshold and the category policy of its request,
\* audits the update and returns
update_config_rest ==
    LET req == pending_update[1].request
    IN
    /\ pending_update # None
    /\ default_confidence_threshold' =
          IF req.default_confidence_threshold # None
          THEN req.default_confidence_threshold[1]
          ELSE default_confidence_threshold
    /\ category_configs' =
          IF req.category_config # None
          THEN LET cc == req.category_config[1]
               IN [c \in DOMAIN category_configs \cup {cc.category} |->
                     IF c = cc.category THEN cc.config ELSE category_configs[c]]
          ELSE category_configs
    /\ audit_log' = log_entry(audit_log, "SYSTEM", "config_updated", None, TRUE)
    /\ config_ops' = config_ops + 1
    /\ pending_update' = None
    /\ UNCHANGED <<global_enabled, notification_service, incidents, calls,
                   notifications, kill_switch_alerts, clock, evaluation,
                   caller_vars, audit_service, tracked_incidents, agent_calls,
                   query_result>>

\* the policy of a new ConfigService and one open incident
SnapshotInit ==
    /\ global_enabled = TRUE
    /\ default_confidence_threshold = DefaultConfidenceThreshold
    /\ category_configs \in {DefaultCategoryConfigs, EmptyCategoryConfigs}
    /\ notification_service \in {"present", "None"}
    /\ incidents \in [IncidentIds ->
          {NewIncident("database", "open", v) : v \in ConfidenceScores}]
    /\ calls = [c \in CallIds |-> IdleCall]
    /\ audit_log = <<>>
    /\ notifications = <<>>
    /\ kill_switch_alerts = 0
    /\ clock = 1
    /\ config_ops = 0
    /\ evaluation = None
    /\ batch = <<>>
    /\ responses = <<>>
    /\ validation_errors = 0
    /\ ServiceInit

\* policy updates, a request that changes the flag being applied in two
\* stretches, and one gating evaluation at any moment
SnapshotNext ==
    \/ config_ops < MaxSnapshotOps /\ pending_update = None /\ activate_kill_switch
    \/ config_ops < MaxSnapshotOps /\ pending_update = None /\ deactivate_kill_switch
    \/ config_ops < MaxSnapshotOps /\ pending_update = None
          /\ \E req \in ConfigUpdateRequests :
                /\ req.global_enabled \in {None, <<global_enabled>>}
                /\ update_config(req)
    \/ config_ops < MaxSnapshotOps
          /\ \E req \in ConfigUpdateRequests : update_config_flag(req)
    \/ update_config_rest
    \/ \E i \in IncidentIds : check_can_resolve(i)

SpecSnapshot == SnapshotInit /\ [][SnapshotNext]_vars

(* ----------------------------- SpecAgent ------------------------------- *)
\* confidence_score = 1.0, which BusinessLogicAgent.resolve_incident assigns
\* for a forced call
ForcedConfidenceScore == 100

\* BusinessLogicAgent.resolve_incident, lines 78-83, with the first stretch
\* of AutoResolutionService.resolve_incident (ResolveStart): a forced call
\* saves the confidence score and overwrites it, then the service call is
\* made.  With no audit sink the service call raises at once, the exception
\* leaves the agent's frame too and line 86 is never reached.
agent_resolve_incident(c, i, force) ==
    LET incident == IF force
                    THEN [incidents[i] EXCEPT
                            !.confidence_score = ForcedConfidenceScore]
                    ELSE incidents[i]
    IN
    /\ agent_calls[c].pc = "idle"
    /\ calls[c].pc = "idle"
    /\ incidents' = [incidents EXCEPT ![i] = incident]
    /\ IF audit_service = "None"
       THEN /\ audit_log' = audit_log
            /\ calls' = [calls EXCEPT ![c] =
                  [@ EXCEPT !.pc = "raised", !.incident = i,
                            !.pre = <<incident>>]]
            /\ agent_calls' = [agent_calls EXCEPT ![c] =
                  [pc |-> "raised", force |-> force,
                   original_score |-> <<incidents[i].confidence_score>>]]
       ELSE /\ audit_log' = log_entry(audit_log, i, "auto_resolution_attempted",
                                      <<incident.confidence_score>>, TRUE)
            /\ calls' = [calls EXCEPT ![c] =
                  [@ EXCEPT !.pc = "gate", !.incident = i,
                            !.pre = <<incident>>]]
            /\ agent_calls' = [agent_calls EXCEPT ![c] =
                  [pc |-> "awaiting", force |-> force,
                   original_score |-> <<incidents[i].confidence_score>>]]
    /\ UNCHANGED <<policy_vars, notification_service, notifications,
                   kill_switch_alerts, clock, config_ops, evaluation,
                   caller_vars, audit_service, tracked_incidents,
                   pending_update, query_result>>

\* BusinessLogicAgent.resolve_incident, lines 85-88: the service call has
\* returned its response; a forced call puts the saved score back
agent_return(c) ==
    LET i == calls[c].incident
    IN
    /\ agent_calls[c].pc = "awaiting"
    /\ calls[c].pc = "done"
    /\ incidents' =
          IF agent_calls[c].force
          THEN [incidents EXCEPT
                  ![i].confidence_score = agent_calls[c].original_score[1]]
          ELSE incidents
    /\ agent_calls' = [agent_calls EXCEPT ![c].pc = "returned"]
    /\ UNCHANGED <<policy_vars, notification_service, calls, audit_log,
                   notifications, kill_switch_alerts, clock, config_ops,
                   evaluation, caller_vars, audit_service, tracked_incidents,
                   pending_update, query_result>>

\* the category policies of SpecAgent: none, or one for the category of the
\* incident, enabled or disabled
AgentCategoryConfigs ==
    {EmptyCategoryConfigs} \cup
    {[c \in {"security"} |-> CategoryConfig(e, DefaultConfidenceThreshold)] :
        e \in BOOLEAN}

\* BusinessLogicAgent.__init__ with every choice of enable_audit and
\* enable_notifications (the notification service is made only when the audit
\* service is), a policy with the flag on or off, and one incident
AgentInit ==
    /\ global_enabled \in BOOLEAN
    /\ default_confidence_threshold = DefaultConfidenceThreshold
    /\ category_configs \in AgentCategoryConfigs
    /\ \E enable_audit, enable_notifications \in BOOLEAN :
          /\ audit_service = IF enable_audit THEN "present" ELSE "None"
          /\ notification_service =
                IF enable_notifications /\ enable_audit THEN "present" ELSE "None"
    /\ incidents \in [IncidentIds ->
          {NewIncident("security", s, v) : s \in Statuses, v \in {65, 99}}]
    /\ calls = [c \in CallIds |-> IdleCall]
    /\ audit_log = <<>>
    /\ notifications = <<>>
    /\ kill_switch_alerts = 0
    /\ clock = 1
    /\ config_ops = 0
    /\ evaluation = None
    /\ batch = <<>>
    /\ responses = <<>>
    /\ validation_errors = 0
    /\ tracked_incidents = {}
    /\ agent_calls = [c \in CallIds |-> IdleAgentCall]
    /\ pending_update = None
    /\ query_result = None

\* calls of the agent, one after the other, forced or not
AgentNext ==
    \/ \E c \in CallIds, i \in IncidentIds, force \in BOOLEAN :
          /\ \A d \in CallIds :
                d < c => agent_calls[d].pc \in {"returned", "raised"}
          /\ agent_resolve_incident(c, i, force)
    \/ \E c \in CallIds : ResolveGate(c)
    \/ \E c \in CallIds, raised \in BOOLEAN : ExecuteStep(c, raised)
    \/ \E c \in CallIds : ResolveCommit(c)
    \/ \E c \in CallIds, delivery_fails \in BOOLEAN : ResolveNotify(c, delivery_fails)
    \/ \E c \in CallIds : agent_return(c)

SpecAgent == AgentInit /\ [][AgentNext]_vars

(* --------------------------- SpecConcurrent ---------------------------- *)
\* one open incident that passes gating under the default policy, with a
\* one-step template
ConcurrentInit ==
    /\ global_enabled = TRUE
    /\ default_confidence_threshold = DefaultConfidenceThreshold
    /\ category_configs \in {DefaultCategoryConfigs, EmptyCategoryConfigs}
    /\ notification_service \in {"present", "None"}
    /\ incidents = [i \in IncidentIds |-> NewIncident("security", "open", 99)]
    /\ calls = [c \in CallIds |-> IdleCall]
    /\ audit_log = <<>>
    /\ notifications = <<>>
    /\ kill_switch_alerts = 0
    /\ clock = 1
    /\ config_ops = 0
    /\ evaluation = None
    /\ batch = <<>>
    /\ responses = <<>>
    /\ validation_errors = 0
    /\ ServiceInit

\* resolve_incident coroutines on one event loop: a call may be made while
\* another is suspended at a sink or in a step action
ConcurrentNext ==
    \/ \E c \in CallIds, i \in IncidentIds : ResolveStart(c, i)
    \/ \E c \in CallIds : ResolveGate(c)
    \/ \E c \in CallIds, raised \in BOOLEAN : ExecuteStep(c, raised)
    \/ \E c \in CallIds : ResolveCommit(c)
    \/ \E c \in CallIds, delivery_fails \in BOOLEAN : ResolveNotify(c, delivery_fails)

SpecConcurrent == ConcurrentInit /\ [][ConcurrentNext]_vars

(* ----------------------------- SpecReopen ------------------------------ *)
\* reopen_incident changed to leave the auto_resolved flag as it is
reopen_incident_flag_kept(i) ==
    /\ i \in tracked_incidents
    /\ incidents' = [incidents EXCEPT ![i] =
          [@ EXCEPT !.status = "open",
                    !.resolved_at = None,
                    !.updated_at = clock]]
    /\ UNCHANGED <<policy_vars, notification_service, calls, audit_log,
                   notifications, kill_switch_alerts, clock, config_ops,
                   evaluation, caller_vars, service_vars>>

\* NotificationService.reopen_incident: an incident the service has stored
\* (line 82) is put back to OPEN (lines 256-259); an unknown id raises
\* ValueError and changes nothing.  The audit call that follows names
\* AuditAction.INCIDENT_REOPENED, which the enum does not define, so it raises
\* AttributeError after the incident has been written and nothing is audited.
reopen_incident(i) ==
    /\ i \in tracked_incidents
    /\ incidents' = [incidents EXCEPT ![i] =
          [@ EXCEPT !.status = "open",
                    !.auto_resolved = FALSE,
                    !.resolved_at = None,
                    !.updated_at = clock]]
    /\ UNCHANGED <<policy_vars, notification_service, calls, audit_log,
                   notifications, kill_switch_alerts, clock, config_ops,
                   evaluation, caller_vars, service_vars>>

\* the statuses of an incident that has not been auto-resolved
UnresolvedStatuses == Statuses \ {"auto_resolved"}

\* one incident that has never been auto-resolved, under the default policy
ReopenInit ==
    /\ global_enabled = TRUE
    /\ default_confidence_threshold = DefaultConfidenceThreshold
    /\ category_configs = EmptyCategoryConfigs
    /\ notification_service \in {"present", "None"}
    /\ incidents \in [IncidentIds ->
          {NewIncident("security", s, v) : s \in UnresolvedStatuses, v \in {65, 99}}]
    /\ calls = [c \in CallIds |-> IdleCall]
    /\ audit_log = <<>>
    /\ notifications = <<>>
    /\ kill_switch_alerts = 0
    /\ clock = 1
    /\ config_ops = 0
    /\ evaluation = None
    /\ batch = <<>>
    /\ responses = <<>>
    /\ validation_errors = 0
    /\ ServiceInit

\* resolve calls, which may overlap, and reopenings
ReopenNext ==
    \/ \E c \in CallIds, i \in IncidentIds : ResolveStart(c, i)
    \/ \E c \in CallIds : ResolveGate(c)
    \/ \E c \in CallIds, raised \in BOOLEAN : ExecuteStep(c, raised)
    \/ \E c \in CallIds : ResolveCommit(c)
    \/ \E c \in CallIds, delivery_fails \in BOOLEAN : ResolveNotify(c, delivery_fails)
    \/ \E i \in IncidentIds : reopen_incident(i)

SpecReopen == ReopenInit /\ [][ReopenNext]_vars

(* ------------------------------ SpecAudit ------------------------------ *)
\* the incident ids and the actions of the entries logged in SpecAudit
AuditIncidentIds == {"INC-001", "INC-002"}
AuditActions == {"auto_resolution_attempted", "auto_resolution_success"}

\* AuditQuery(incident_id, action, start_date, end_date, limit, offset):
\* limit is between 1 and 1000, offset is not negative
AuditQueries ==
    [incident_id : {None, <<"INC-001">>},
     action : {None, <<"auto_resolution_success">>},
     start_date : {None, <<2>>},
     end_date : {None, <<2>>},
     limit : {1, 1000},
     offset : {0, 1}]

\* AuditQuery(incident_id=incident_id, limit=1000), line 243
TrailQuery(incident_id) ==
    [incident_id |-> <<incident_id>>, action |-> None, start_date |-> None,
     end_date |-> None, limit |-> 1000, offset |-> 0]

\* query_audit_log, lines 217-229: each filter that is given makes a new list
\* of the entries that pass it
Filtered(log, query) ==
    LET Passes(e) ==
          /\ query.incident_id # None => e.incident_id = query.incident_id[1]
          /\ query.action # None => e.action = query.action[1]
          /\ query.start_date # None => e.timestamp >= query.start_date[1]
          /\ query.end_date # None => e.timestamp <= query.end_date[1]
    IN SelectSeq(log, Passes)

\* list.sort(key=timestamp, reverse=True), line 232: the sort is stable, so
\* the entry at position k moves behind the entries that are newer and behind
\* the entries of the same timestamp that stood before it
SortedNewestFirst(list) ==
    LET Rank(k) ==
          1 + Cardinality({j \in 1..Len(list) :
                 \/ list[j].timestamp > list[k].timestamp
                 \/ list[j].timestamp = list[k].timestamp /\ j < k})
    IN [p \in 1..Len(list) |->
          list[CHOOSE k \in 1..Len(list) : Rank(k) = p]]

\* results[offset:offset+limit], lines 235-238
Page(list, offset, limit) ==
    SubSeq(list, offset + 1,
           IF offset + limit < Len(list) THEN offset + limit ELSE Len(list))

\* a filter of the query is given: results is then a list of its own;
\* otherwise it is the stored list itself (line 215)
HasFilter(query) ==
    \/ query.incident_id # None
    \/ query.action # None
    \/ query.start_date # None
    \/ query.end_date # None

\* AuditService.log_entry called by a client; elapsed is the time that passes
\* before the next call
log_entry_call(incident_id, action, elapsed) ==
    /\ audit_log' = log_entry(audit_log, incident_id, action, None, TRUE)
    /\ clock' = clock + elapsed
    /\ UNCHANGED <<policy_vars, notification_service, incidents, calls,
                   notifications, kill_switch_alerts, config_ops, evaluation,
                   caller_vars, service_vars>>

\* AuditService.query_audit_log: the list that is sorted is the stored list
\* itself when no filter is given
query_audit_log(query) ==
    LET results == Filtered(audit_log, query)
        sorted  == SortedNewestFirst(results)
    IN
    /\ audit_log' = IF HasFilter(query) THEN audit_log ELSE sorted
    /\ query_result' = <<[query |-> query,
                          entries |-> Page(sorted, query.offset, query.limit)]>>
    /\ UNCHANGED <<policy_vars, notification_service, incidents, calls,
                   notifications, kill_switch_alerts, clock, config_ops,
                   evaluation, caller_vars, audit_service, tracked_incidents,
                   agent_calls, pending_update>>

\* AuditService.get_incident_audit_trail
get_incident_audit_trail(incident_id) == query_audit_log(TrailQuery(incident_id))

\* AuditService.__init__: an empty log
AuditInit ==
    /\ global_enabled = TRUE
    /\ default_confidence_threshold = DefaultConfidenceThreshold
    /\ category_configs = EmptyCategoryConfigs
    /\ notification_service = "present"
    /\ incidents = [i \in IncidentIds |-> NewIncident("security", "open", 99)]
    /\ calls = [c \in CallIds |-> IdleCall]
    /\ audit_log = <<>>
    /\ notifications = <<>>
    /\ kill_switch_alerts = 0
    /\ clock = 1
    /\ config_ops = 0
    /\ evaluation = None
    /\ batch = <<>>
    /\ responses = <<>>
    /\ validation_errors = 0
    /\ ServiceInit

\* entries are logged and the log is queried, in any order
AuditNext ==
    \/ Len(audit_log) < MaxAuditEntries
          /\ \E i \in AuditIncidentIds, a \in AuditActions, elapsed \in {0, 1} :
                log_entry_call(i, a, elapsed)
    \/ \E query \in AuditQueries : query_audit_log(query)
    \/ \E i \in AuditIncidentIds : get_incident_audit_trail(i)

SpecAudit == AuditInit /\ [][AuditNext]_vars

(***************************************************************************)
(*                       Properties of the gating                          *)
(***************************************************************************)
\* The policy of section 3 read directly from a recorded evaluation e: a
\* category absent from the mapping is enabled with the default threshold.
CategoryPolicyEnabled(e) ==
    e.incident.category \notin DOMAIN e.category_configs
       \/ e.category_configs[e.incident.category].auto_resolution_enabled

EffectiveThreshold(e) ==
    IF e.incident.category \in DOMAIN e.category_configs
    THEN e.category_configs[e.incident.category].confidence_threshold
    ELSE e.default_confidence_threshold

TerminalStatus(status) ==
    status \in {"auto_resolved", "manually_resolved", "closed"}

\* C1: when the global flag is false, can_auto_resolve denies with the
\* override (kill switch) reason, whatever the incident's status, category,
\* category policy and confidence score are.
C1_GlobalFlagFalseDenies ==
    evaluation # None =>
        LET e == evaluation[1]
        IN ~e.global_enabled => e.verdict = <<FALSE, "OVERRIDE_ACTIVE">>

\* C1 witness: the flag is false and the incident would pass every other
\* check (open, category enabled, confidence at or above the threshold), and
\* it has been denied.
C1_Witness ==
    /\ evaluation # None
    /\ ~evaluation[1].global_enabled
    /\ evaluation[1].incident.status = "open"
    /\ CategoryPolicyEnabled(evaluation[1])
    /\ evaluation[1].incident.confidence_score >= EffectiveThreshold(evaluation[1])
    /\ evaluation[1].verdict[1] = FALSE

\* C3: can_auto_resolve reports the first failing check in the order global
\* flag, terminal status, category disabled, confidence below the effective
\* threshold, and allows exactly when all four checks pass; a confidence
\* equal to the threshold is allowed.
C3_FixedPrecedence ==
    evaluation # None =>
        LET e == evaluation[1]
            pass1 == e.global_enabled
            pass2 == ~TerminalStatus(e.incident.status)
            pass3 == CategoryPolicyEnabled(e)
            pass4 == e.incident.confidence_score >= EffectiveThreshold(e)
        IN /\ ~pass1 => e.verdict = <<FALSE, "OVERRIDE_ACTIVE">>
           /\ pass1 /\ ~pass2 => e.verdict = <<FALSE, "ALREADY_TERMINAL">>
           /\ pass1 /\ pass2 /\ ~pass3 => e.verdict = <<FALSE, "CATEGORY_DISABLED">>
           /\ pass1 /\ pass2 /\ pass3 /\ ~pass4 => e.verdict = <<FALSE, "BELOW_THRESHOLD">>
           /\ e.verdict[1] <=> (pass1 /\ pass2 /\ pass3 /\ pass4)

\* C3 witness: an incident whose confidence equals the threshold of its
\* category policy has been allowed.
C3_Witness ==
    /\ evaluation # None
    /\ evaluation[1].incident.category \in DOMAIN evaluation[1].category_configs
    /\ evaluation[1].incident.confidence_score = EffectiveThreshold(evaluation[1])
    /\ evaluation[1].verdict[1] = TRUE

\* C4 as stated: whenever the confidence is below the effective threshold of
\* the category, the verdict is a denial with reason BELOW_THRESHOLD.
C4_Original ==
    evaluation # None =>
        LET e == evaluation[1]
        IN e.incident.confidence_score < EffectiveThreshold(e)
              => e.verdict = <<FALSE, "BELOW_THRESHOLD">>

\* C4 as amended: a confidence below the effective threshold is always denied,
\* and the reason is BELOW_THRESHOLD when no earlier check fails (flag true,
\* status not terminal, category enabled).
C4_BelowThresholdDenied ==
    evaluation # None =>
        LET e == evaluation[1]
        IN e.incident.confidence_score < EffectiveThreshold(e)
              => /\ e.verdict[1] = FALSE
                 /\ (e.global_enabled /\ ~TerminalStatus(e.incident.status)
                       /\ CategoryPolicyEnabled(e))
                      => e.verdict[2] = "BELOW_THRESHOLD"

\* C4 witness: denied as below a category threshold that is above the default
\* threshold the confidence would have passed.
C4_Witness ==
    /\ evaluation # None
    /\ evaluation[1].incident.category \in DOMAIN evaluation[1].category_configs
    /\ evaluation[1].incident.confidence_score < EffectiveThreshold(evaluation[1])
    /\ evaluation[1].incident.confidence_score >= evaluation[1].default_confidence_threshold
    /\ evaluation[1].verdict = <<FALSE, "BELOW_THRESHOLD">>

\* C19: with the flag true and the incident not terminal, a category without
\* an entry in the mapping is gated as enabled with the default threshold,
\* and a category with an entry is gated by that entry's enabled flag and
\* threshold, whatever the default threshold is.
C19_CategoryDefaulting ==
    evaluation # None =>
        LET e == evaluation[1]
            cat == e.incident.category
            score == e.incident.confidence_score
            Gate(enabled, threshold) ==
                IF ~enabled THEN <<FALSE, "CATEGORY_DISABLED">>
                ELSE IF score < threshold THEN <<FALSE, "BELOW_THRESHOLD">>
                ELSE <<TRUE, "ALL_CHECKS_PASSED">>
        IN (e.global_enabled /\ ~TerminalStatus(e.incident.status)) =>
              IF cat \in DOMAIN e.category_configs
              THEN e.verdict =
                     Gate(e.category_configs[cat].auto_resolution_enabled,
                          e.category_configs[cat].confidence_threshold)
              ELSE e.verdict = Gate(TRUE, e.default_confidence_threshold)

\* C19 witness: an open incident with confidence 0.92 whose category has an
\* enabled policy with threshold 0.95 has been denied as below threshold
\* although the default threshold is 0.90.
C19_Witness ==
    /\ evaluation # None
    /\ evaluation[1].global_enabled
    /\ evaluation[1].incident.status = "open"
    /\ evaluation[1].incident.confidence_score = 92
    /\ evaluation[1].default_confidence_threshold = 90
    /\ evaluation[1].incident.category \in DOMAIN evaluation[1].category_configs
    /\ evaluation[1].category_configs[evaluation[1].incident.category]
          = CategoryConfig(TRUE, 95)
    /\ evaluation[1].verdict = <<FALSE, "BELOW_THRESHOLD">>

(***************************************************************************)
(*                      Properties of the pipeline                         *)
(***************************************************************************)
\* The override is in effect: activate_kill_switch (or an update that turned
\* the flag off) has been audited and no deactivation has been audited since.
OverrideInEffect(log) ==
    \E k \in 1..Len(log) :
        /\ log[k].action = "kill_switch_activated"
        /\ \A j \in (k+1)..Len(log) : log[j].action # "kill_switch_deactivated"

\* call c leaves its gating in this step
Gated(c) == calls[c].pc = "gate" /\ calls'[c].pc # "gate"

\* call c returns in this step
Returns(c) == calls[c].pc # "done" /\ calls'[c].pc = "done"

\* C2: after activate_override, and until the flag is set true again, every
\* resolve call that is gated is denied with the override reason, runs no
\* remediation step and leaves the incident unchanged, and auto-resolution is
\* reported disabled for every category.
C2_OverrideBlocksEveryResolve ==
    /\ [](OverrideInEffect(audit_log) =>
            /\ ~global_enabled
            /\ \A cat \in AllCategories : ~is_auto_resolution_enabled(cat))
    /\ [][\A c \in CallIds :
            (OverrideInEffect(audit_log) /\ Gated(c)) =>
                /\ calls'[c].pc = "done"
                /\ calls'[c].result[1].success = FALSE
                /\ calls'[c].result[1].reason = "OVERRIDE_ACTIVE"
                /\ calls'[c].result[1].resolution_steps = <<>>
                /\ calls'[c].invoked = <<>>
                /\ incidents' = incidents
                /\ incidents[calls[c].incident] = calls[c].pre[1]]_vars

\* C2 witness: the override was activated and a resolve call on an open
\* incident with the highest confidence has returned the override denial.
C2_Witness ==
    \E c \in CallIds :
        /\ OverrideInEffect(audit_log)
        /\ calls[c].pc = "done"
        /\ calls[c].pre[1].status = "open"
        /\ calls[c].pre[1].confidence_score = 99
        /\ calls[c].result[1].reason = "OVERRIDE_ACTIVE"
        /\ incidents[calls[c].incident].status = "open"

\* an earlier call d has resolved the incident of call c, which still has
\* the status that call gave it
ResolvedBefore(d, c) ==
    /\ d < c
    /\ calls[d].pc = "done"
    /\ calls[d].incident = calls[c].incident
    /\ calls[d].result[1].success
    /\ incidents[calls[c].incident].status = "auto_resolved"

\* C5 as stated: after one successful resolve, a second resolve on the same
\* incident returns success=false with reason ALREADY_TERMINAL.
C5_Original ==
    \A c, d \in CallIds :
        (calls[c].pc = "done" /\ ResolvedBefore(d, c)) =>
            /\ calls[c].result[1].success = FALSE
            /\ calls[c].result[1].reason = "ALREADY_TERMINAL"

\* C5 as amended: after one successful resolve, a second resolve on the same
\* incident, still AUTO_RESOLVED, returns success=false, with reason
\* ALREADY_TERMINAL when the global flag is true at its gating and
\* OVERRIDE_ACTIVE when it is false; it runs no remediation step, sends no
\* notification and leaves the incident with the step list of the first call.
C5_SecondResolveDenied ==
    [][\A c, d \in CallIds :
            (Gated(c) /\ ResolvedBefore(d, c)) =>
                /\ calls'[c].pc = "done"
                /\ calls'[c].result[1].success = FALSE
                /\ calls'[c].result[1].reason =
                      IF global_enabled THEN "ALREADY_TERMINAL" ELSE "OVERRIDE_ACTIVE"
                /\ calls'[c].invoked = <<>>
                /\ notifications' = notifications
                /\ incidents' = incidents
                /\ incidents'[calls[c].incident].resolution_steps
                      = calls[d].result[1].resolution_steps]_vars

\* C5 witness: a second call on an incident resolved by the first has been
\* denied as already terminal, and the incident still carries the steps of the
\* first call.
C5_Witness ==
    \E c, d \in CallIds :
        /\ calls[c].pc = "done"
        /\ ResolvedBefore(d, c)
        /\ calls[c].result[1].reason = "ALREADY_TERMINAL"
        /\ Len(notifications) = 1
        /\ incidents[calls[c].incident].resolution_steps # <<>>
        /\ incidents[calls[c].incident].resolution_steps
              = calls[d].result[1].resolution_steps

\* C6: when gating denies, resolve returns success=false with the skipped
\* message carrying the reason and an empty step list, and the incident is
\* the same after the call as before it, field by field.
C6_DeniedLeavesIncident ==
    [][\A c \in CallIds :
            (Gated(c) /\ ~can_auto_resolve(global_enabled,
                                           default_confidence_threshold,
                                           category_configs,
                                           incidents[calls[c].incident])[1]) =>
                /\ calls'[c].pc = "done"
                /\ calls'[c].result[1].success = FALSE
                /\ calls'[c].result[1].message = "skipped"
                /\ calls'[c].result[1].reason \in
                      {"OVERRIDE_ACTIVE", "ALREADY_TERMINAL", "CATEGORY_DISABLED",
                       "BELOW_THRESHOLD"}
                /\ calls'[c].result[1].resolution_steps = <<>>
                /\ incidents'[calls[c].incident] = calls[c].pre[1]]_vars

\* C6 witness: an open incident below the threshold has been skipped and is
\* still open.
C6_Witness ==
    \E c \in CallIds :
        /\ calls[c].pc = "done"
        /\ calls[c].result[1].message = "skipped"
        /\ calls[c].result[1].reason = "BELOW_THRESHOLD"
        /\ calls[c].pre[1].status = "open"
        /\ incidents[calls[c].incident] = calls[c].pre[1]

\* C7: a call whose try block raised outside the per-step try/except has
\* audited the failure, returns success=false with the error message, and has
\* left the incident as it was before the attempt.
C7_PipelineFailureLeavesIncident ==
    \A c \in CallIds :
        (calls[c].pc = "done" /\ calls[c].exception) =>
            /\ \E k \in 1..Len(audit_log) :
                  /\ audit_log[k].action = "auto_resolution_failed"
                  /\ audit_log[k].incident_id = calls[c].incident
            /\ calls[c].result[1].success = FALSE
            /\ calls[c].result[1].message = "failed"
            /\ incidents[calls[c].incident].status = calls[c].pre[1].status
            /\ incidents[calls[c].incident].resolved_at = calls[c].pre[1].resolved_at
            /\ incidents[calls[c].incident].resolution_steps
                  = calls[c].pre[1].resolution_steps

\* C8: a call whose notification raised after it had marked the incident
\* AUTO_RESOLVED still returns success=true.
C8_NotificationFailureNotFatal ==
    \A c \in CallIds :
        (/\ calls[c].pc = "done"
         /\ calls[c].exception
         /\ incidents[calls[c].incident].status = "auto_resolved"
         /\ incidents[calls[c].incident].resolution_steps = calls[c].resolution_steps)
        => calls[c].result[1].success = TRUE

\* a step record whose action has run: it succeeded, or it failed and carries
\* the captured error
StepRan(step) ==
    /\ step.executed_at # None
    /\ \/ step.success = <<TRUE>> /\ step.error_message = None
       \/ step.success = <<FALSE>> /\ step.error_message # None

IsPrefix(a, b) ==
    /\ Len(a) <= Len(b)
    /\ \A k \in 1..Len(a) : a[k] = b[k]

\* the call passed gating
Allowed(c) == calls[c].steps_config # <<>>

\* C9: within one allowed call the template's steps run one at a time in
\* template order, each exactly once: the actions run so far are a prefix of
\* the template, every step record made so far has outcome succeeded or
\* failed (a raising action is recorded as failed with its error), no record
\* is rewritten or dropped afterwards, and once the loop is over every
\* template step has run, whatever the outcomes.
C9_StepsSequentialOnce ==
    /\ [](\A c \in CallIds :
            /\ IsPrefix(calls[c].invoked, calls[c].steps_config)
            /\ Len(calls[c].resolution_steps) = Len(calls[c].invoked)
            /\ \A k \in 1..Len(calls[c].resolution_steps) :
                  /\ calls[c].resolution_steps[k].action = calls[c].invoked[k]
                  /\ StepRan(calls[c].resolution_steps[k])
            /\ (Allowed(c) /\ calls[c].pc \in {"commit", "notify", "done"})
                  => calls[c].invoked = calls[c].steps_config)
    /\ [][\A c \in CallIds :
            /\ IsPrefix(calls[c].resolution_steps, calls'[c].resolution_steps)
            /\ Len(calls'[c].invoked) <= Len(calls[c].invoked) + 1
            /\ calls'[c].invoked # calls[c].invoked => calls[c].pc = "steps"]_vars

\* C9 witness: a call has returned after its first step failed and the two
\* steps after it ran and succeeded.
C9_Witness ==
    \E c \in CallIds :
        /\ calls[c].pc = "done"
        /\ Len(calls[c].steps_config) = 3
        /\ calls[c].invoked = calls[c].steps_config
        /\ calls[c].resolution_steps[1].success = <<FALSE>>
        /\ calls[c].resolution_steps[1].error_message # None
        /\ calls[c].resolution_steps[2].success = <<TRUE>>
        /\ calls[c].resolution_steps[3].success = <<TRUE>>

\* C10: an allowed call in which nothing raised outside the step loop returns
\* success=true with the step list and the resolution time, and the incident
\* is AUTO_RESOLVED, stamped with that time and carries that step list,
\* whatever the outcomes of the steps.
C10_AllowedCallResolves ==
    [][\A c \in CallIds :
            (Returns(c) /\ Allowed(c) /\ ~calls'[c].exception) =>
                LET r == calls'[c].result[1]
                    inc == incidents'[calls[c].incident]
                IN /\ r.success = TRUE
                   /\ r.resolution_steps = calls[c].resolution_steps
                   /\ Len(r.resolution_steps) = Len(calls[c].steps_config)
                   /\ r.resolved_at # None
                   /\ inc.status = "auto_resolved"
                   /\ inc.auto_resolved
                   /\ inc.resolved_at = r.resolved_at
                   /\ inc.resolution_steps = r.resolution_steps]_vars

\* C10 witness: a call in which every step failed has returned success=true
\* and the incident is AUTO_RESOLVED.
C10_Witness ==
    \E c \in CallIds :
        /\ calls[c].pc = "done"
        /\ calls[c].result[1].success
        /\ calls[c].result[1].resolution_steps # <<>>
        /\ \A k \in 1..Len(calls[c].result[1].resolution_steps) :
              calls[c].result[1].resolution_steps[k].success = <<FALSE>>
        /\ incidents[calls[c].incident].status = "auto_resolved"

(***************************************************************************)
(*                 Properties of the results and the audit                 *)
(***************************************************************************)
\* lengths of the remediation templates as section 4.3 gives them
TemplateLength(category) ==
    IF category \in {"database", "network", "application"} THEN 3
    ELSE IF category = "ios_upgrade" THEN 5
    ELSE 1

\* C11: a call on an allowed incident returns a step list as long as the
\* template of the incident's category (3 for DATABASE, NETWORK and
\* APPLICATION, 5 for IOS_UPGRADE, 1 otherwise).
C11_StepListLength ==
    \A c \in CallIds :
        (calls[c].pc = "done" /\ Allowed(c)) =>
            Len(calls[c].result[1].resolution_steps)
                = TemplateLength(calls[c].pre[1].category)

\* C12: when a call returns, resolved_at is set in its result if and only if
\* success is true, and a call that returns success=false has not stamped the
\* incident with a resolution time.
C12_ResolvedAtIffSuccess ==
    [][\A c \in CallIds :
            Returns(c) =>
                LET r == calls'[c].result[1]
                IN /\ (r.resolved_at # None) <=> r.success
                   /\ ~r.success =>
                         incidents'[calls[c].incident].resolved_at
                            = calls[c].pre[1].resolved_at]_vars

OutcomeActions ==
    {"auto_resolution_skipped", "auto_resolution_success", "auto_resolution_failed"}

\* the record at position a of log is the ATTEMPTED record of the call that
\* made the record at position o: same incident, before o, and no other
\* attempt on the incident between them
AttemptOf(log, a, o) ==
    /\ a < o
    /\ log[a].action = "auto_resolution_attempted"
    /\ log[a].incident_id = log[o].incident_id
    /\ \A j \in (a+1)..(o-1) : log[j].action # "auto_resolution_attempted"

OutcomesOfLastAttempt(log) ==
    LET last == CHOOSE a \in 1..Len(log) :
                    /\ log[a].action = "auto_resolution_attempted"
                    /\ \A j \in (a+1)..Len(log) :
                          log[j].action # "auto_resolution_attempted"
    IN SelectSeq(SubSeq(log, last + 1, Len(log)),
                 LAMBDA r : r.action \in OutcomeActions)

\* C14: a call that returns has emitted exactly one outcome record, SKIPPED,
\* SUCCESS or FAILED, and the kind agrees with the result: SUCCESS if and only
\* if success=true, SKIPPED if and only if the call was denied.
C14_OneOutcomeRecord ==
    [][\A c \in CallIds :
            Returns(c) =>
                LET out == OutcomesOfLastAttempt(audit_log')
                    r == calls'[c].result[1]
                IN /\ Len(out) = 1
                   /\ (out[1].action = "auto_resolution_success") <=> r.success
                   /\ (out[1].action = "auto_resolution_skipped")
                         <=> (r.message = "skipped")]_vars

(***************************************************************************)
(*                  Properties of the policy operations                    *)
(***************************************************************************)
\* thresholds the policy of section 3 admits: [0.5, 1.0]
ThresholdInRange(t) == 50 <= t /\ t <= 100

\* every threshold the request carries is in [0.5, 1.0]
RequestInRange(raw) ==
    /\ raw.default_confidence_threshold # None =>
          ThresholdInRange(raw.default_confidence_threshold[1])
    /\ raw.category_config # None =>
          ThresholdInRange(raw.category_config[1].config.confidence_threshold)

\* C15: a configuration update that carries a default or category threshold
\* outside [0.5, 1.0] is rejected before anything is committed: the global
\* flag, the default threshold and every category policy are after the call
\* what they were before it, also when the call carried valid changes, and
\* nothing is audited or notified.
C15_RejectedUpdateChangesNothing ==
    [][\A raw \in RawConfigUpdateRequests :
            (~RequestInRange(raw) /\ update_configuration(raw)) =>
                /\ UNCHANGED policy_vars
                /\ UNCHANGED <<audit_log, kill_switch_alerts>>
                /\ validation_errors' = validation_errors + 1]_vars

\* C15 witness: one update has been requested and refused, and the policy is
\* the initial one.
C15_Witness ==
    /\ config_ops = 1
    /\ validation_errors = 1
    /\ global_enabled
    /\ default_confidence_threshold = DefaultConfidenceThreshold
    /\ category_configs = DefaultCategoryConfigs
    /\ audit_log = <<>>

\* C16: in every reachable policy state the default threshold and every
\* category threshold lie in [0.5, 1.0].
C16_SafetyFloor ==
    /\ ThresholdInRange(default_confidence_threshold)
    /\ \A c \in DOMAIN category_configs :
          ThresholdInRange(category_configs[c].confidence_threshold)

\* C17: every step that changes the global flag, the default threshold or a
\* category policy appends a record to the audit log.
C17_PolicyChangesAudited ==
    [][policy_vars' # policy_vars => Len(audit_log') > Len(audit_log)]_vars

\* C18: a kill switch notification is pushed only by a step that changes the
\* global flag from true to false; activating the override when it is
\* already in effect pushes none.
C18_NoDoubleNotify ==
    [][kill_switch_alerts' # kill_switch_alerts
          => (global_enabled /\ ~global_enabled')]_vars

(***************************************************************************)
(*                     Properties of the batch call                        *)
(***************************************************************************)
\* C20: a batch call makes one resolve call per incident in input order,
\* call k+1 only after call k has returned and its response has been
\* appended; the responses are one per incident in the same order, and the
\* response at position k has success=true exactly when the incident at
\* position k passed gating.
C20_BatchInOrder ==
    /\ Len(responses) <= Len(batch)
    /\ \A k \in 1..Len(responses) :
          /\ responses[k].incident_id = batch[k]
          /\ calls[k].pc = "done"
          /\ calls[k].incident = batch[k]
          /\ responses[k].response = calls[k].result[1]
          /\ responses[k].response.success <=> Allowed(k)
    /\ \A c \in DOMAIN calls :
          calls[c].pc # "idle" =>
              /\ calls[c].incident = batch[c]
              /\ \A d \in 1..(c-1) : calls[d].pc = "done" /\ Len(responses) >= d
    /\ (\A c \in DOMAIN calls : calls[c].pc = "done")
          => Len(responses) >= Len(batch) - 1

\* C21: the engine changes an incident's status only from OPEN or IN_PROGRESS
\* to AUTO_RESOLVED, in the commit of an allowed call that has run every step
\* of the template; a call on an AUTO_RESOLVED, MANUALLY_RESOLVED or CLOSED
\* incident is denied and leaves the incident as it was, and a call denied on
\* an OPEN or IN_PROGRESS incident leaves its status.
C21_StatusTransitions ==
    /\ [][\A i \in IncidentIds :
            incidents'[i].status # incidents[i].status =>
                /\ incidents[i].status \in {"open", "in_progress"}
                /\ incidents'[i].status = "auto_resolved"
                /\ \E c \in CallIds :
                      /\ calls[c].incident = i
                      /\ calls[c].pc = "commit" /\ calls'[c].pc = "notify"
                      /\ Allowed(c)
                      /\ Len(calls[c].invoked)
                            = TemplateLength(incidents[i].category)
                      /\ \A k \in 1..Len(calls[c].resolution_steps) :
                            StepRan(calls[c].resolution_steps[k])]_vars
    /\ [](\A c \in CallIds :
            (calls[c].pc # "idle" /\ TerminalStatus(calls[c].pre[1].status)) =>
                /\ calls[c].pc \in {"gate", "done"}
                /\ calls[c].invoked = <<>>
                /\ incidents[calls[c].incident] = calls[c].pre[1]
                /\ calls[c].pc = "done" =>
                      /\ calls[c].result[1].success = FALSE
                      /\ calls[c].result[1].message = "skipped")
    /\ [][\A c \in CallIds :
            (Gated(c) /\ calls'[c].pc = "done") =>
                incidents'[calls[c].incident].status
                   = incidents[calls[c].incident].status]_vars

\* C21 witness: one call has resolved an IN_PROGRESS incident, and a later
\* call on the incident, now AUTO_RESOLVED, has been denied and has left it
\* alone.
C21_Witness ==
    \E c, d \in CallIds :
        /\ calls[c].pc = "done" /\ calls[d].pc = "done"
        /\ calls[c].pre[1].status = "in_progress"
        /\ calls[c].result[1].success
        /\ calls[d].pre[1].status = "auto_resolved"
        /\ calls[d].result[1].message = "skipped"
        /\ calls[d].invoked = <<>>
        /\ incidents[calls[d].incident] = calls[d].pre[1]

\* the fields of an incident that a resolve call never writes
SameCallerFields(a, b) ==
    /\ a.category = b.category
    /\ a.priority = b.priority
    /\ a.confidence_score = b.confidence_score

\* call c passes from the step loop to the notification in this step
Commits(c) == calls[c].pc = "commit" /\ calls'[c].pc = "notify"

\* C22 as stated: a resolve call changes no field of the incident other than
\* status, the resolution timestamp and the step list.
C22_Original ==
    [][\A i \in IncidentIds :
            /\ SameCallerFields(incidents[i], incidents'[i])
            /\ incidents'[i].auto_resolved = incidents[i].auto_resolved
            /\ incidents'[i].updated_at = incidents[i].updated_at]_vars

\* C22: a resolve call changes no field of the incident other than status,
\* the auto_resolved flag, the resolution timestamp, the update timestamp and
\* the step list, and changes those only on the allow path: category,
\* priority and confidence score are the same after every step of every call,
\* and the incident changes only in the commit of a call that passed gating.
C22_FrameOfResolve ==
    /\ [][\A i \in IncidentIds :
            /\ SameCallerFields(incidents[i], incidents'[i])
            /\ incidents'[i] # incidents[i] =>
                  \E c \in CallIds :
                      /\ calls[c].incident = i
                      /\ Commits(c)
                      /\ Allowed(c)
                      /\ calls[c].pre[1].status \in {"open", "in_progress"}]_vars
    /\ [](\A c \in CallIds :
            calls[c].pc # "idle" =>
                SameCallerFields(calls[c].pre[1], incidents[calls[c].incident]))

\* C22 witness: a call has returned success and the incident differs from
\* what it was before the call in status, auto_resolved, resolved_at,
\* updated_at and the step list.
C22_Witness ==
    \E c \in CallIds :
        LET before == calls[c].pre[1]
            after  == incidents[calls[c].incident]
        IN /\ calls[c].pc = "done"
           /\ calls[c].result[1].success
           /\ before.status = "open" /\ after.status = "auto_resolved"
           /\ ~before.auto_resolved /\ after.auto_resolved
           /\ before.resolved_at = None /\ after.resolved_at # None
           /\ before.updated_at # after.updated_at
           /\ before.resolution_steps = <<>> /\ after.resolution_steps # <<>>
           /\ SameCallerFields(before, after)

\* C23: a call that passed gating before the global flag was set to false
\* is not stopped by the flip: it runs every step of the template, marks the
\* incident AUTO_RESOLVED and returns success=true; a call gated while the
\* flag is false is denied with the override reason.
C23_NoCancellation ==
    /\ [](\A c \in CallIds :
            (Allowed(c) /\ ~global_enabled /\ calls[c].pc = "done") =>
                /\ calls[c].invoked = calls[c].steps_config
                /\ incidents[calls[c].incident].status = "auto_resolved"
                /\ calls[c].result[1].success = TRUE)
    /\ [][\A c \in CallIds :
            (Gated(c) /\ ~global_enabled) =>
                /\ calls'[c].pc = "done"
                /\ calls'[c].result[1].reason = "OVERRIDE_ACTIVE"]_vars

\* the policy an evaluation read
PolicyRead(e) ==
    [global_enabled |-> e.global_enabled,
     default_confidence_threshold |-> e.default_confidence_threshold,
     category_configs |-> e.category_configs]

\* the policy in force
PolicyNow ==
    [global_enabled |-> global_enabled,
     default_confidence_threshold |-> default_confidence_threshold,
     category_configs |-> category_configs]

\* the verdict of gating an incident under the policy an evaluation read
AllowedUnder(e) ==
    /\ e.global_enabled
    /\ ~TerminalStatus(e.incident.status)
    /\ CategoryPolicyEnabled(e)
    /\ e.incident.confidence_score >= EffectiveThreshold(e)

\* C24: one gating evaluation reads the global flag, the category's enabled
\* flag and the category's threshold from one policy state: the policy it
\* read is the policy in force in the step it is made, no policy variable
\* changes in that step, and its verdict is the verdict under that policy.
C24_ConsistentSnapshot ==
    [][(evaluation = None /\ evaluation' # None) =>
            LET e == evaluation'[1]
            IN /\ PolicyRead(e) = PolicyNow
               /\ policy_vars' = policy_vars
               /\ e.verdict[1] = AllowedUnder(e)]_vars

\* C24 witness: an evaluation has been made while an update that turns the
\* flag back on was suspended with the rest of its request not yet applied;
\* it read the new flag and allowed the incident.
C24_Witness ==
    /\ evaluation # None
    /\ pending_update # None
    /\ ~pending_update[1].before.global_enabled
    /\ evaluation[1].global_enabled
    /\ PolicyRead(evaluation[1]) = PolicyNow
    /\ evaluation[1].verdict[1]

\* the policy after the whole of an update request has been applied
PolicyAfter(before, req) ==
    [global_enabled |->
        IF req.global_enabled # None THEN req.global_enabled[1]
        ELSE before.global_enabled,
     default_confidence_threshold |->
        IF req.default_confidence_threshold # None
        THEN req.default_confidence_threshold[1]
        ELSE before.default_confidence_threshold,
     category_configs |->
        IF req.category_config # None
        THEN [c \in DOMAIN before.category_configs
                      \cup {req.category_config[1].category} |->
                IF c = req.category_config[1].category
                THEN req.category_config[1].config
                ELSE before.category_configs[c]]
        ELSE before.category_configs]

AgentCallEnds(c) ==
    /\ agent_calls[c].pc \in {"idle", "awaiting"}
    /\ agent_calls'[c].pc \in {"returned", "raised"}

\* the policy in force and the incident of call c as the service saw it
GateInput(c) ==
    [global_enabled |-> global_enabled,
     default_confidence_threshold |-> default_confidence_threshold,
     category_configs |-> category_configs,
     incident |-> calls'[c].pre[1]]

\* C25: a forced call of the agent bypasses only the confidence threshold: on
\* an incident below the threshold it resolves the incident when the flag is
\* on, the status is not terminal and the category is enabled, and it is
\* denied otherwise; and when any call of the agent ends, forced or not, the
\* incident's confidence_score is what it was when the call was made.
C25_ForceBypassesThresholdOnly ==
    [][\A c \in CallIds :
            AgentCallEnds(c) =>
                LET i == calls'[c].incident
                    e == GateInput(c)
                    others == /\ e.global_enabled
                              /\ ~TerminalStatus(e.incident.status)
                              /\ CategoryPolicyEnabled(e)
                IN /\ incidents'[i].confidence_score
                         = agent_calls'[c].original_score[1]
                   /\ (agent_calls'[c].force /\ others) =>
                         incidents'[i].status = "auto_resolved"
                   /\ (agent_calls'[c].force /\ ~others) =>
                         /\ calls'[c].pc = "done"
                         /\ calls'[c].result[1].message = "skipped"
                         /\ incidents'[i].status = e.incident.status]_vars

\* C28: no resolve call ends with an exception: every call that has ended has
\* returned a response.
C28_NeverRaises ==
    \A c \in CallIds :
        /\ calls[c].pc # "raised"
        /\ agent_calls[c].pc # "raised"
        /\ calls[c].pc = "done" => calls[c].result # None

\* the calls that have run a remediation step on incident i
Remediators(i) ==
    {c \in CallIds : calls[c].incident = i /\ calls[c].invoked # <<>>}

\* the positions of the SUCCESS records of incident i in the audit log
SuccessRecords(i) ==
    {k \in 1..Len(audit_log) :
        audit_log[k].incident_id = i
           /\ audit_log[k].action = "auto_resolution_success"}

C29_ResolvedFieldsAgree ==
    \A i \in IncidentIds :
        LET inc == incidents[i]
        IN /\ (inc.status = "auto_resolved") <=> inc.auto_resolved
           /\ inc.status = "auto_resolved" =>
                 /\ inc.resolved_at # None
                 /\ inc.resolution_steps # <<>>
                 /\ \E c \in CallIds :
                       /\ calls[c].incident = i
                       /\ calls[c].pc \in {"notify", "done"}
                       /\ Allowed(c)
                       /\ inc.resolution_steps = calls[c].resolution_steps
                       /\ Len(inc.resolution_steps) = TemplateLength(inc.category)

\* C29 witness: an incident that a call resolved has been reopened: it is
\* OPEN, its flag is false and its resolved_at is unset, and it still carries
\* the steps of that call.
C29_Witness ==
    \E c \in CallIds :
        LET inc == incidents[calls[c].incident]
        IN /\ calls[c].pc = "done"
           /\ calls[c].result[1].success
           /\ calls[c].incident \in tracked_incidents
           /\ inc.status = "open"
           /\ ~inc.auto_resolved
           /\ inc.resolved_at = None
           /\ inc.resolution_steps = calls[c].resolution_steps
           /\ inc.resolution_steps # <<>>

\* entry e passes the filters of the query
Matches(e, query) ==
    /\ query.incident_id # None => e.incident_id = query.incident_id[1]
    /\ query.action # None => e.action = query.action[1]
    /\ query.start_date # None => e.timestamp >= query.start_date[1]
    /\ query.end_date # None => e.timestamp <= query.end_date[1]

\* list is the entries of log that pass the query, newest first
MatchingNewestFirst(list, log, query) ==
    /\ \A k \in 1..(Len(list) - 1) : list[k].timestamp >= list[k+1].timestamp
    /\ \A k \in 1..Len(list) : Matches(list[k], query)
    /\ \E f \in [1..Len(list) -> 1..Len(log)] :
          /\ \A k \in 1..Len(list) : log[f[k]] = list[k]
          /\ \A j, k \in 1..Len(list) : j # k => f[j] # f[k]
          /\ \A n \in 1..Len(log) :
                Matches(log[n], query) => \E k \in 1..Len(list) : f[k] = n

\* C30: the stored log changes only by one record appended at its end, and a
\* query leaves the stored log as it is and returns the records that pass its
\* filters, newest first, from offset to offset+limit.
C30_AppendOnlyReadOnlyQueries ==
    /\ [][audit_log' # audit_log =>
            /\ Len(audit_log') = Len(audit_log) + 1
            /\ SubSeq(audit_log', 1, Len(audit_log)) = audit_log]_vars
    /\ [][query_result' # query_result =>
            LET q == query_result'[1].query
                r == query_result'[1].entries
            IN /\ audit_log' = audit_log
               /\ \E all \in UNION {[1..n -> {audit_log[k] : k \in 1..Len(audit_log)}] :
                                       n \in 0..Len(audit_log)} :
                     /\ MatchingNewestFirst(all, audit_log, q)
                     /\ r = Page(all, q.offset, q.limit)]_vars

====
